---- MODULE Spec2Model ----
(***************************************************************************)
(* A model of the data engine of json-explorer (src/lib/json-utils.ts):    *)
(* flatten, detectFields, getValues, matchesFilter and filterAndSort,      *)
(* together with the searchCache memo of src/components/filter-bar.tsx     *)
(* that feeds filterAndSort.                                                *)
(*                                                                         *)
(* JavaScript strings are sequences of one-character strings, so that      *)
(* split, includes, toLowerCase, parseFloat, parseInt, String(...),        *)
(* JSON.stringify and localeCompare are computed, not assumed.  JSON       *)
(* values are tagged records; an object keeps its keys in the order        *)
(* for-in enumerates them.  Records of a dataset are referred to by their  *)
(* position in it, which stands for the object identity JavaScript uses.   *)
(***************************************************************************)
EXTENDS Integers, Sequences, FiniteSets, TLC

\* call: the function applied and its arguments; pc: "call" before the
\* function has run and "return" after; ret: what it returned
VARIABLES call, pc, ret

(***************************************************************************)
(* Bounds of the model.                                                    *)
(***************************************************************************)
\* the longest dataset handed to detectFields and filterAndSort
MaxRecords == 3
\* the longest filter list handed to filterAndSort
MaxFilters == 2

(***************************************************************************)
(* Sequences.                                                              *)
(***************************************************************************)
RECURSIVE Concat(_)
\* the concatenation of a sequence of sequences
Concat(ss) == IF ss = <<>> THEN <<>> ELSE Head(ss) \o Concat(Tail(ss))

\* the sequences over S of length at most n
SeqUpTo(S, n) == UNION {[1..k -> S] : k \in 0..n}

\* s starts with p at position i (1-based)
StartsAt(s, p, i) ==
    /\ i + Len(p) - 1 <= Len(s)
    /\ \A k \in 1..Len(p) : s[i + k - 1] = p[k]

\* String.prototype.includes
Includes(s, p) == \E i \in 1..(Len(s) + 1) : StartsAt(s, p, i)

\* the set of the elements of a sequence
Range(seq) == {seq[i] : i \in 1..Len(seq)}

\* s from position i (1-based) to its end
From(s, i) == SubSeq(s, i, Len(s))

(***************************************************************************)
(* Characters.                                                             *)
(***************************************************************************)
DigitChars == <<"0", "1", "2", "3", "4", "5", "6", "7", "8", "9">>
LowerChars == <<"a", "b", "c", "d", "e", "f", "g", "h", "i", "j", "k", "l", "m",
                "n", "o", "p", "q", "r", "s", "t", "u", "v", "w", "x", "y", "z">>
UpperChars == <<"A", "B", "C", "D", "E", "F", "G", "H", "I", "J", "K", "L", "M",
                "N", "O", "P", "Q", "R", "S", "T", "U", "V", "W", "X", "Y", "Z">>
\* the punctuation of the model's alphabet, in the order of the root collation
PunctChars == <<" ", "-", ",", ":", ".", "\"", "[", "]", "{", "}", "+">>

\* the position of c in the sequence of characters cs (0 when absent)
IndexIn(cs, c) == IF \E i \in 1..Len(cs) : cs[i] = c
                  THEN CHOOSE i \in 1..Len(cs) : cs[i] = c
                  ELSE 0

IsDigit(c) == IndexIn(DigitChars, c) > 0
DigitVal(c) == IndexIn(DigitChars, c) - 1
IsWhite(c) == c = " "

\* one character of String.prototype.toLowerCase
LowerChar(c) == IF IndexIn(UpperChars, c) > 0 THEN LowerChars[IndexIn(UpperChars, c)] ELSE c

\* String.prototype.toLowerCase
ToLowerCase(s) == [i \in 1..Len(s) |-> LowerChar(s[i])]

\* String.prototype.trim
RECURSIVE TrimStart(_)
TrimStart(s) == IF s # <<>> /\ IsWhite(Head(s)) THEN TrimStart(Tail(s)) ELSE s
RECURSIVE TrimEnd(_)
TrimEnd(s) == IF s # <<>> /\ IsWhite(s[Len(s)]) THEN TrimEnd(SubSeq(s, 1, Len(s) - 1)) ELSE s
Trim(s) == TrimEnd(TrimStart(s))

(***************************************************************************)
(* Numbers.  A JavaScript number is NaN, an infinity, or the decimal       *)
(* m / 10^d; comparisons of decimals are exact, as they are for the        *)
(* doubles that short decimal literals parse to.  Exponents are applied    *)
(* exactly, so the model's inputs keep magnitudes within TLC's integers.   *)
(***************************************************************************)
NaN == [k |-> "nan"]
Inf(sgn) == [k |-> "inf", sgn |-> sgn]
Fin(m, d) == [k |-> "fin", m |-> m, d |-> d]

RECURSIVE Pow10(_)
Pow10(n) == IF n = 0 THEN 1 ELSE 10 * Pow10(n - 1)

IsNaN(x) == x.k = "nan"

\* the sign of the JavaScript difference a - b: "neg", "zero", "pos" or "nan"
DiffSign(a, b) ==
    IF IsNaN(a) \/ IsNaN(b) THEN "nan"
    ELSE IF a.k = "inf" /\ b.k = "inf"
         THEN (IF a.sgn = b.sgn THEN "nan" ELSE IF a.sgn > 0 THEN "pos" ELSE "neg")
    ELSE IF a.k = "inf" THEN (IF a.sgn > 0 THEN "pos" ELSE "neg")
    ELSE IF b.k = "inf" THEN (IF b.sgn > 0 THEN "neg" ELSE "pos")
    ELSE LET l == a.m * Pow10(b.d)
             r == b.m * Pow10(a.d)
         IN  IF l < r THEN "neg" ELSE IF l > r THEN "pos" ELSE "zero"

\* the order of two JavaScript numbers: "lt", "eq", "gt", or "un" (unordered)
NumOrder(a, b) ==
    IF IsNaN(a) \/ IsNaN(b) THEN "un"
    ELSE IF a.k = "inf" /\ b.k = "inf" /\ a.sgn = b.sgn THEN "eq"
    ELSE CASE DiffSign(a, b) = "neg" -> "lt"
           [] DiffSign(a, b) = "pos" -> "gt"
           [] OTHER -> "eq"

\* the JavaScript operators >, <, >=, <= and === on numbers
NumGt(a, b) == NumOrder(a, b) = "gt"
NumLt(a, b) == NumOrder(a, b) = "lt"
NumGe(a, b) == NumOrder(a, b) \in {"gt", "eq"}
NumLe(a, b) == NumOrder(a, b) \in {"lt", "eq"}
NumEq(a, b) == NumOrder(a, b) = "eq"

\* the number of leading decimal digits of s
RECURSIVE DigitRun(_)
DigitRun(s) == IF s # <<>> /\ IsDigit(Head(s)) THEN 1 + DigitRun(Tail(s)) ELSE 0

\* the value of a sequence of decimal digits (0 for none)
RECURSIVE DecValue(_)
DecValue(ds) == IF ds = <<>> THEN 0
                ELSE 10 * DecValue(SubSeq(ds, 1, Len(ds) - 1)) + DigitVal(ds[Len(ds)])

InfinityStr == <<"I", "n", "f", "i", "n", "i", "t", "y">>

\* the exponent part of a StrDecimalLiteral at the head of rest: the value of
\* e, E followed by an optional sign and digits, and 0 when there is none
ExponentOf(rest) ==
    IF rest = <<>> \/ rest[1] \notin {"e", "E"} THEN 0
    ELSE IF Len(rest) > 1 /\ rest[2] = "-"
         THEN -DecValue(SubSeq(rest, 3, 2 + DigitRun(From(rest, 3))))
    ELSE IF Len(rest) > 1 /\ rest[2] = "+"
         THEN DecValue(SubSeq(rest, 3, 2 + DigitRun(From(rest, 3))))
    ELSE DecValue(SubSeq(rest, 2, 1 + DigitRun(From(rest, 2))))

\* sgn * mant * 10^sh
Scaled(sgn, mant, sh) == IF sh >= 0 THEN Fin(sgn * mant * Pow10(sh), 0) ELSE Fin(sgn * mant, -sh)

\* body has ni integer digits, then (with dot) a point and nf fraction digits
DecimalOf(body, sgn, ni, dot, nf) ==
    IF ni + nf = 0 THEN NaN
    ELSE Scaled(sgn,
                DecValue(SubSeq(body, 1, ni) \o SubSeq(body, ni + 2, ni + 1 + nf)),
                ExponentOf(From(body, ni + (IF dot THEN 1 ELSE 0) + nf + 1)) - nf)

FractionOf(body, sgn, ni) ==
    IF Len(body) > ni /\ body[ni + 1] = "."
    THEN DecimalOf(body, sgn, ni, TRUE, DigitRun(From(body, ni + 2)))
    ELSE DecimalOf(body, sgn, ni, FALSE, 0)

\* a StrDecimalLiteral without its sign
UnsignedOf(body, sgn) ==
    IF StartsAt(body, InfinityStr, 1) THEN Inf(sgn) ELSE FractionOf(body, sgn, DigitRun(body))

SignedOf(t) ==
    IF t # <<>> /\ t[1] = "-" THEN UnsignedOf(Tail(t), -1)
    ELSE IF t # <<>> /\ t[1] = "+" THEN UnsignedOf(Tail(t), 1)
    ELSE UnsignedOf(t, 1)

\* the global parseFloat: leading white space is skipped, then the longest
\* prefix that is a StrDecimalLiteral is converted; NaN when there is none
ParseFloat(s) == SignedOf(TrimStart(s))

HexChars == <<"0", "1", "2", "3", "4", "5", "6", "7", "8", "9", "a", "b", "c", "d", "e", "f">>
IsHexDigit(c) == IndexIn(HexChars, LowerChar(c)) > 0

\* the number of leading hexadecimal digits of s
RECURSIVE HexRun(_)
HexRun(s) == IF s # <<>> /\ IsHexDigit(Head(s)) THEN 1 + HexRun(Tail(s)) ELSE 0

\* the value of a sequence of hexadecimal digits
RECURSIVE HexValue(_)
HexValue(ds) == IF ds = <<>> THEN 0
                ELSE 16 * HexValue(SubSeq(ds, 1, Len(ds) - 1))
                     + (IndexIn(HexChars, LowerChar(ds[Len(ds)])) - 1)

\* the digits of an integer literal without its sign, in radix 16 after 0x
IntegerOf(body, sgn) ==
    IF Len(body) >= 2 /\ body[1] = "0" /\ body[2] \in {"x", "X"}
    THEN IF HexRun(From(body, 3)) = 0 THEN NaN
         ELSE Fin(sgn * HexValue(SubSeq(body, 3, 2 + HexRun(From(body, 3)))), 0)
    ELSE IF DigitRun(body) = 0 THEN NaN
         ELSE Fin(sgn * DecValue(SubSeq(body, 1, DigitRun(body))), 0)

SignedIntegerOf(t) ==
    IF t # <<>> /\ t[1] = "-" THEN IntegerOf(Tail(t), -1)
    ELSE IF t # <<>> /\ t[1] = "+" THEN IntegerOf(Tail(t), 1)
    ELSE IntegerOf(t, 1)

\* the global parseInt without a radix: white space, a sign, an optional 0x,
\* then the longest run of digits of the radix; NaN when that run is empty
ParseInt(s) == SignedIntegerOf(TrimStart(s))

\* the decimal digits of a natural number
RECURSIVE DigitsOf(_)
DigitsOf(n) == IF n < 10 THEN <<DigitChars[n + 1]>>
               ELSE DigitsOf(n \div 10) \o <<DigitChars[(n % 10) + 1]>>

\* Number.prototype.toString of an integer
IntToString(n) == IF n < 0 THEN <<"-">> \o DigitsOf(-n) ELSE DigitsOf(n)

(***************************************************************************)
(* JSON values, as JSON.parse builds them.                                 *)
(***************************************************************************)
Null == [t |-> "null"]
Undefined == [t |-> "undef"]
Num(n) == [t |-> "num", n |-> n]
Str(s) == [t |-> "str", s |-> s]
Bool(b) == [t |-> "bool", b |-> b]
Arr(xs) == [t |-> "arr", xs |-> xs]
\* the numbers Infinity (sgn = 1) and -Infinity (sgn = -1), which JSON.parse
\* yields for a number literal beyond the range of the doubles
Infinite(sgn) == [t |-> "inf", sgn |-> sgn]
\* the number m / 10^d that is no integer (d > 0, m no multiple of 10)
Dec(m, d) == [t |-> "dec", m |-> m, d |-> d]
\* an object: its keys, in for-in order, and the value of each
Obj(ks, vs) == [t |-> "obj", ks |-> ks, vs |-> vs]

\* typeof v === "object" && v !== null
IsObject(v) == v.t \in {"obj", "arr"}
\* Array.isArray(v)
IsArray(v) == v.t = "arr"
\* v == null
IsNullish(v) == v.t \in {"null", "undef"}

\* the array index a property key denotes (-1 when it is no canonical index)
IndexOfKey(key, len) ==
    IF \E i \in 0..(len - 1) : IntToString(i) = key
    THEN CHOOSE i \in 0..(len - 1) : IntToString(i) = key
    ELSE -1

LengthStr == <<"l", "e", "n", "g", "t", "h">>

\* the property read v[key] on own properties (undefined when absent)
Prop(v, key) ==
    CASE v.t = "obj" ->
           IF IndexIn(v.ks, key) > 0 THEN v.vs[IndexIn(v.ks, key)] ELSE Undefined
      [] v.t = "arr" ->
           IF IndexOfKey(key, Len(v.xs)) >= 0 THEN v.xs[IndexOfKey(key, Len(v.xs)) + 1]
           ELSE IF key = LengthStr THEN Num(Len(v.xs))
           ELSE Undefined
      [] v.t = "str" ->
           IF IndexOfKey(key, Len(v.s)) >= 0 THEN Str(<<v.s[IndexOfKey(key, Len(v.s)) + 1]>>)
           ELSE IF key = LengthStr THEN Num(Len(v.s))
           ELSE Undefined
      [] OTHER -> Undefined

\* the keys a for-in loop over v enumerates, in order (none for null,
\* numbers and booleans; the indices for arrays and strings)
ForInKeys(v) ==
    CASE v.t = "obj" -> v.ks
      [] v.t = "arr" -> [i \in 1..Len(v.xs) |-> IntToString(i - 1)]
      [] v.t = "str" -> [i \in 1..Len(v.s) |-> IntToString(i - 1)]
      [] OTHER -> <<>>

\* Number.prototype.toString of m / 10^d (d > 0; for magnitudes from 10^-6
\* on, below which JavaScript prints an exponent)
DecToString(m, d) ==
    LET digits == DigitsOf(IF m < 0 THEN -m ELSE m)
        padded == [i \in 1..(d + 1 - Len(digits)) |-> "0"] \o digits
    IN  (IF m < 0 THEN <<"-">> ELSE <<>>)
        \o SubSeq(padded, 1, Len(padded) - d) \o <<".">> \o From(padded, Len(padded) - d + 1)

\* String(v)
RECURSIVE JsString(_)
\* Array.prototype.join(",") of the elements from position i on
RECURSIVE JoinFrom(_, _)
JoinFrom(xs, i) ==
    IF i > Len(xs) THEN <<>>
    ELSE (IF i > 1 THEN <<",">> ELSE <<>>)
         \o (IF IsNullish(xs[i]) THEN <<>> ELSE JsString(xs[i]))
         \o JoinFrom(xs, i + 1)

JsString(v) ==
    CASE v.t = "null"  -> <<"n", "u", "l", "l">>
      [] v.t = "undef" -> <<"u", "n", "d", "e", "f", "i", "n", "e", "d">>
      [] v.t = "num"   -> IntToString(v.n)
      [] v.t = "dec"   -> DecToString(v.m, v.d)
      [] v.t = "inf"   -> (IF v.sgn < 0 THEN <<"-">> ELSE <<>>) \o InfinityStr
      [] v.t = "str"   -> v.s
      [] v.t = "bool"  -> IF v.b THEN <<"t", "r", "u", "e">> ELSE <<"f", "a", "l", "s", "e">>
      [] v.t = "arr"   -> JoinFrom(v.xs, 1)
      [] v.t = "obj"   -> <<"[", "o", "b", "j", "e", "c", "t", " ", "O", "b", "j", "e", "c", "t", "]">>

\* the JSON text of a string: quoted, with quotes and backslashes escaped
RECURSIVE Escape(_)
Escape(s) == IF s = <<>> THEN <<>>
             ELSE (IF Head(s) \in {"\"", "\\"} THEN <<"\\", Head(s)>> ELSE <<Head(s)>>)
                  \o Escape(Tail(s))
Quote(s) == <<"\"">> \o Escape(s) \o <<"\"">>

\* JSON.stringify(v) without indentation
RECURSIVE Stringify(_)
RECURSIVE StringifyItems(_, _)
StringifyItems(xs, i) ==
    IF i > Len(xs) THEN <<>>
    ELSE (IF i > 1 THEN <<",">> ELSE <<>>) \o Stringify(xs[i]) \o StringifyItems(xs, i + 1)
RECURSIVE StringifyMembers(_, _)
StringifyMembers(o, i) ==
    IF i > Len(o.ks) THEN <<>>
    ELSE (IF i > 1 THEN <<",">> ELSE <<>>)
         \o Quote(o.ks[i]) \o <<":">> \o Stringify(o.vs[i])
         \o StringifyMembers(o, i + 1)

Stringify(v) ==
    CASE v.t = "arr" -> <<"[">> \o StringifyItems(v.xs, 1) \o <<"]">>
      [] v.t = "obj" -> <<"{">> \o StringifyMembers(v, 1) \o <<"}">>
      [] v.t = "str" -> Quote(v.s)
      [] v.t = "inf" -> <<"n", "u", "l", "l">>
      [] OTHER       -> JsString(v)

(***************************************************************************)
(* String.prototype.localeCompare under the root collation: strings are    *)
(* compared first by the primary weights of their characters (white        *)
(* space, then punctuation, then digits, then letters without regard to    *)
(* case), and strings equal at that level by case, lower case first.       *)
(* The result is "neg", "zero" or "pos".                                   *)
(***************************************************************************)
Primary(c) ==
    IF IndexIn(PunctChars, c) > 0 THEN IndexIn(PunctChars, c)
    ELSE IF IsDigit(c) THEN Len(PunctChars) + IndexIn(DigitChars, c)
    ELSE Len(PunctChars) + Len(DigitChars) + IndexIn(LowerChars, LowerChar(c))

IsUpper(c) == IndexIn(UpperChars, c) > 0

\* the lexicographic order of two sequences of integers
RECURSIVE LexOrder(_, _)
LexOrder(a, b) ==
    IF a = <<>> /\ b = <<>> THEN "zero"
    ELSE IF a = <<>> THEN "neg"
    ELSE IF b = <<>> THEN "pos"
    ELSE IF Head(a) < Head(b) THEN "neg"
    ELSE IF Head(a) > Head(b) THEN "pos"
    ELSE LexOrder(Tail(a), Tail(b))

LocaleCompare(a, b) ==
    LET p == LexOrder([i \in 1..Len(a) |-> Primary(a[i])], [i \in 1..Len(b) |-> Primary(b[i])])
    IN  IF p # "zero" THEN p
        ELSE LexOrder([i \in 1..Len(a) |-> IF IsUpper(a[i]) THEN 1 ELSE 0],
                      [i \in 1..Len(b) |-> IF IsUpper(b[i]) THEN 1 ELSE 0])

(***************************************************************************)
(* src/lib/json-utils.ts                                                   *)
(***************************************************************************)
\* String.prototype.split("."): the segments of path between the dots
RECURSIVE SplitDots(_)
SplitDots(path) ==
    IF \E i \in 1..Len(path) : path[i] = "."
    THEN LET i == CHOOSE j \in 1..Len(path) :
                      path[j] = "." /\ \A k \in 1..(j - 1) : path[k] # "."
         IN  <<SubSeq(path, 1, i - 1)>> \o SplitDots(From(path, i + 1))
    ELSE <<path>>

\* path = prefix ? `${prefix}.${key}` : key
JoinPath(prefix, key) == IF prefix # <<>> THEN prefix \o <<".">> \o key ELSE key

\* flatten(obj, prefix, res): the paths the call appends to res, in order
RECURSIVE flatten(_, _)
\* the iterations of the for-in loop from the i-th key of obj on
RECURSIVE flattenKeys(_, _, _)
\* the iterations of the for-of loop over an array of objects from item i on
RECURSIVE flattenItems(_, _, _)
RECURSIVE flattenEntry(_, _)
flattenItems(val, path, i) ==
    IF i > Len(val.xs) THEN <<>>
    ELSE flatten(val.xs[i], path) \o flattenItems(val, path, i + 1)

\* the body of the for-in loop: what one key, with its path and value, appends
flattenEntry(path, val) ==
    IF IsArray(val)
    THEN IF Len(val.xs) > 0 /\ IsObject(val.xs[1])
         THEN flattenItems(val, path, 1)
         ELSE <<path>>
    ELSE IF IsObject(val)
         THEN flatten(val, path)
         ELSE <<path>>

flattenKeys(obj, prefix, i) ==
    IF i > Len(ForInKeys(obj)) THEN <<>>
    ELSE flattenEntry(JoinPath(prefix, ForInKeys(obj)[i]), Prop(obj, ForInKeys(obj)[i]))
         \o flattenKeys(obj, prefix, i + 1)

flatten(obj, prefix) == flattenKeys(obj, prefix, 1)

\* an add that does not look for the path among those already there
SetAddAgain(fields, k) == Append(fields, k)

\* Set.prototype.add on a set kept in insertion order
SetAdd(fields, k) == IF IndexIn(fields, k) > 0 THEN fields ELSE Append(fields, k)

\* the inner loop of detectFields: add every path of ks, in order
RECURSIVE AddAll(_, _)
AddAll(fields, ks) == IF ks = <<>> THEN fields ELSE AddAll(SetAdd(fields, Head(ks)), Tail(ks))

\* the outer loop of detectFields from record i on
RECURSIVE detectFrom(_, _, _)
detectFrom(data, fields, i) ==
    IF i > Len(data) THEN fields
    ELSE detectFrom(data, AddAll(fields, flatten(data[i], <<>>)), i + 1)

detectFields(data) == detectFrom(data, <<>>, 1)

\* a candidate step that pushes an array itself instead of its elements
pushValueUnspread(v, recPart) ==
    IF IsNullish(v) \/ ~IsObject(v) THEN <<>>
    ELSE IF recPart # Undefined THEN <<recPart>>
    ELSE <<>>

\* what one candidate v contributes to newVals, given its property recPart
pushValue(v, recPart) ==
    IF IsNullish(v) \/ ~IsObject(v) THEN <<>>
    ELSE IF IsArray(recPart) THEN recPart.xs
    ELSE IF recPart # Undefined THEN <<recPart>>
    ELSE <<>>

\* one round of getValues' outer loop: the candidates for the next segment
RECURSIVE stepValues(_, _)
stepValues(values, part) ==
    IF values = <<>> THEN <<>>
    ELSE pushValue(Head(values), Prop(Head(values), part)) \o stepValues(Tail(values), part)

\* getValues' outer loop over the segments of the path
RECURSIVE walkParts(_, _)
walkParts(values, parts) ==
    IF parts = <<>> THEN values
    ELSE walkParts(stepValues(values, Head(parts)), Tail(parts))

IsDefined(v) == v # Undefined

getValues(obj, path) == SelectSeq(walkParts(<<obj>>, SplitDots(path)), IsDefined)

\* a FilterDef
FilterDef(id, field, operator, val1, val2) ==
    [id |-> id, field |-> field, operator |-> operator, val1 |-> val1, val2 |-> val2]

\* an array-level branch that reads the operand with parseFloat
matchesLengthFloat(length, operator, val1) ==
    CASE operator = "is_empty"      -> length = 0
      [] operator = "is_not_empty"  -> length # 0
      [] operator = "length_equals" -> NumEq(Fin(length, 0), ParseFloat(val1))
      [] operator = "length_gt"     -> NumGt(Fin(length, 0), ParseFloat(val1))
      [] operator = "length_lt"     -> NumLt(Fin(length, 0), ParseFloat(val1))
      [] OTHER -> TRUE

\* the array-level branch of matchesFilter, on the array's length
matchesLength(length, operator, val1) ==
    CASE operator = "is_empty"      -> length = 0
      [] operator = "is_not_empty"  -> length # 0
      [] operator = "length_equals" -> NumEq(Fin(length, 0), ParseInt(val1))
      [] operator = "length_gt"     -> NumGt(Fin(length, 0), ParseInt(val1))
      [] operator = "length_lt"     -> NumLt(Fin(length, 0), ParseInt(val1))
      [] OTHER -> TRUE

\* a switch whose "between" excludes its bounds
matchesOperatorExclusive(str, num, operator, val1, val2) ==
    CASE operator = "contains" -> Includes(ToLowerCase(str), ToLowerCase(val1))
      [] operator = "equals"   -> str = val1
      [] operator = ">"        -> ~IsNaN(num) /\ NumGt(num, ParseFloat(val1))
      [] operator = "<"        -> ~IsNaN(num) /\ NumLt(num, ParseFloat(val1))
      [] operator = "between"  -> /\ ~IsNaN(num)
                                  /\ NumGt(num, ParseFloat(val1))
                                  /\ NumLt(num, ParseFloat(val2))
      [] operator = "is_empty"     -> Trim(str) = <<>>
      [] operator = "is_not_empty" -> Trim(str) # <<>>
      [] OTHER -> FALSE

\* the switch of the callback of rawValue.some: the value's string, its
\* number num, and the operator
matchesOperator(str, num, operator, val1, val2) ==
    CASE operator = "contains" -> Includes(ToLowerCase(str), ToLowerCase(val1))
      [] operator = "equals"   -> str = val1
      [] operator = ">"        -> ~IsNaN(num) /\ NumGt(num, ParseFloat(val1))
      [] operator = "<"        -> ~IsNaN(num) /\ NumLt(num, ParseFloat(val1))
      [] operator = "between"  -> /\ ~IsNaN(num)
                                  /\ NumGe(num, ParseFloat(val1))
                                  /\ NumLe(num, ParseFloat(val2))
      [] operator = "is_empty"     -> Trim(str) = <<>>
      [] operator = "is_not_empty" -> Trim(str) # <<>>
      [] OTHER -> FALSE

\* a callback without the null check
matchesValueOfNull(v, operator, val1, val2) ==
    matchesOperator(JsString(v), ParseFloat(JsString(v)), operator, val1, val2)

\* the callback of rawValue.some: one resolved value against the operator
matchesValue(v, operator, val1, val2) ==
    IF IsNullish(v) THEN FALSE
    ELSE matchesOperator(JsString(v), ParseFloat(JsString(v)), operator, val1, val2)

\* the two branches of matchesFilter, given the resolved values and item[directField]
matchesResolved(rawValue, directValue, filter) ==
    IF IsArray(directValue) /\ ~Includes(filter.field, <<".">>)
    THEN matchesLength(Len(directValue.xs), filter.operator, filter.val1)
    ELSE \E i \in 1..Len(rawValue) :
             matchesValue(rawValue[i], filter.operator, filter.val1, filter.val2)

matchesFilter(item, filter) ==
    matchesResolved(getValues(item, filter.field),
                    Prop(item, SplitDots(filter.field)[1]), filter)

\* a SortConfig, and the null of "no sort"
SortConfig(field, direction) == [field |-> field, direction |-> direction]
NoSort == [field |-> <<>>, direction |-> "none"]

\* aVals[0] || "" on a list that is not empty, without the test for null
firstOrEmptyKeepingNull(vals) == IF vals = <<>> THEN Str(<<>>) ELSE vals[1]

\* aVals[0] ?? "": the first resolved value, or "" when there is none or it is null
firstOrEmpty(vals) == IF vals = <<>> \/ IsNullish(vals[1]) THEN Str(<<>>) ELSE vals[1]

\* the negation of a comparison result
Negate(c) == CASE c = "neg" -> "pos" [] c = "pos" -> "neg" [] OTHER -> c

\* the two returns of the comparator, given both strings and both numbers
compareParsed(aStr, bStr, aNum, bNum, direction) ==
    IF ~IsNaN(aNum) /\ ~IsNaN(bNum)
    THEN IF direction = "asc" THEN DiffSign(aNum, bNum) ELSE DiffSign(bNum, aNum)
    ELSE IF direction = "asc" THEN LocaleCompare(aStr, bStr) ELSE LocaleCompare(bStr, aStr)

compareStrings(aStr, bStr, direction) ==
    compareParsed(aStr, bStr, ParseFloat(aStr), ParseFloat(bStr), direction)

\* the comparator handed to Array.prototype.sort: "neg", "zero", "pos", or
\* "nan" (the difference of two equal infinities)
compare(a, b, sort) ==
    compareStrings(JsString(firstOrEmpty(getValues(a, sort.field))),
                   JsString(firstOrEmpty(getValues(b, sort.field))), sort.direction)

\* Array.prototype.sort is a stable sort; a comparator result of NaN counts
\* as +0.  The sorted prefix takes the next element after the last element
\* that does not compare greater than it.
\* a sort that overwrites the element it shifts with the one it inserts
RECURSIVE insertSortedOverwriting(_, _, _, _)
insertSortedOverwriting(data, sorted, x, sort) ==
    IF sorted # <<>> /\ compare(data[sorted[Len(sorted)]], data[x], sort) = "pos"
    THEN Append(insertSortedOverwriting(data, SubSeq(sorted, 1, Len(sorted) - 1), x, sort), x)
    ELSE Append(sorted, x)

\* a sort that moves an element before the elements it compares equal to
RECURSIVE insertSortedUnstable(_, _, _, _)
insertSortedUnstable(data, sorted, x, sort) ==
    IF sorted # <<>> /\ compare(data[sorted[Len(sorted)]], data[x], sort) # "neg"
    THEN Append(insertSortedUnstable(data, SubSeq(sorted, 1, Len(sorted) - 1), x, sort),
                sorted[Len(sorted)])
    ELSE Append(sorted, x)

RECURSIVE insertSorted(_, _, _, _)
insertSorted(data, sorted, x, sort) ==
    IF sorted # <<>> /\ compare(data[sorted[Len(sorted)]], data[x], sort) = "pos"
    THEN Append(insertSorted(data, SubSeq(sorted, 1, Len(sorted) - 1), x, sort),
                sorted[Len(sorted)])
    ELSE Append(sorted, x)

RECURSIVE sortFrom(_, _, _, _, _)
sortFrom(data, result, sorted, i, sort) ==
    IF i > Len(result) THEN sorted
    ELSE sortFrom(data, result, insertSorted(data, sorted, result[i], sort), i + 1, sort)

sortBy(data, result, sort) == sortFrom(data, result, <<>>, 1, sort)

\* a filter callback that keeps a record as soon as one column filter passes
keepsAnyFilter(item, cached, searchLower, filters) ==
    /\ searchLower # <<>> => Includes(cached, searchLower)
    /\ filters = <<>> \/ \E k \in 1..Len(filters) : matchesFilter(item, filters[k])

\* the callback of data.filter: the search test, then every column filter
keeps(item, cached, searchLower, filters) ==
    /\ searchLower # <<>> => Includes(cached, searchLower)
    /\ \A k \in 1..Len(filters) : matchesFilter(item, filters[k])

\* the positions of the records of data that the filter callback keeps
filterData(data, searchCache, searchLower, filters) ==
    LET Keep(i) == keeps(data[i],
                         IF i \in DOMAIN searchCache THEN searchCache[i] ELSE <<>>,
                         searchLower, filters)
    IN  SelectSeq([i \in 1..Len(data) |-> i], Keep)

\* the sort step of filterAndSort
sortStep(data, result, sort) == IF sort # NoSort THEN sortBy(data, result, sort) ELSE result

\* the filter step of filterAndSort
filterStep(data, searchCache, searchLower, filters) ==
    IF searchLower # <<>> \/ Len(filters) > 0
    THEN filterData(data, searchCache, searchLower, filters)
    ELSE [i \in 1..Len(data) |-> i]

\* filterAndSort: the records of the result, each named by its position in data
filterAndSort(data, searchCache, search, filters, sort) ==
    sortStep(data, filterStep(data, searchCache, ToLowerCase(search), filters), sort)

(***************************************************************************)
(* src/components/filter-bar.tsx: the searchCache memo.  The Map from a    *)
(* record to its text is a sequence aligned with the dataset.              *)
(***************************************************************************)
buildSearchCache(rawData) == [i \in 1..Len(rawData) |-> ToLowerCase(Stringify(rawData[i]))]

(***************************************************************************)
(* JSON.stringify(value, null, 2) and JSON.parse, which the exports and    *)
(* loadJson of src/components/filter-bar.tsx call.                         *)
(***************************************************************************)
\* n spaces
Spaces(n) == [i \in 1..n |-> " "]

\* JSON.stringify(v, null, 2) of a value nested at the indentation ind
RECURSIVE StringifyIndent(_, _)
RECURSIVE StringifyIndentItems(_, _, _)
StringifyIndentItems(xs, i, ind) ==
    IF i > Len(xs) THEN <<>>
    ELSE (IF i > 1 THEN <<",">> ELSE <<>>) \o <<"\n">> \o Spaces(ind)
         \o StringifyIndent(xs[i], ind) \o StringifyIndentItems(xs, i + 1, ind)
RECURSIVE StringifyIndentMembers(_, _, _)
StringifyIndentMembers(o, i, ind) ==
    IF i > Len(o.ks) THEN <<>>
    ELSE (IF i > 1 THEN <<",">> ELSE <<>>) \o <<"\n">> \o Spaces(ind)
         \o Quote(o.ks[i]) \o <<":", " ">> \o StringifyIndent(o.vs[i], ind)
         \o StringifyIndentMembers(o, i + 1, ind)

StringifyIndent(v, ind) ==
    CASE v.t = "arr" /\ v.xs # <<>> ->
           <<"[">> \o StringifyIndentItems(v.xs, 1, ind + 2) \o <<"\n">> \o Spaces(ind) \o <<"]">>
      [] v.t = "obj" /\ v.ks # <<>> ->
           <<"{">> \o StringifyIndentMembers(v, 1, ind + 2) \o <<"\n">> \o Spaces(ind) \o <<"}">>
      [] OTHER -> Stringify(v)

\* JSON.stringify(items, null, 2) of an array of values
StringifyPretty(items) == StringifyIndent(Arr(items), 0)

\* the white space of the JSON grammar
IsJsonWhite(c) == c \in {" ", "\n", "\t", "\r"}

RECURSIVE SkipWhite(_)
SkipWhite(s) == IF s # <<>> /\ IsJsonWhite(Head(s)) THEN SkipWhite(Tail(s)) ELSE s

\* the outcome of parsing a prefix of a text: a syntax error, or the value
\* parsed and the rest of the text
Failed == [ok |-> FALSE]
Parsed(v, rest) == [ok |-> TRUE, v |-> v, rest |-> rest]

\* the value of a JSON number: sgn * mant * 10^sh, with ndigits the number
\* of digits of mant; Infinity beyond the doubles (from 10^309 on)
RECURSIVE NumberValue(_, _, _, _)
NumberValue(sgn, mant, ndigits, sh) ==
    IF mant = 0 THEN Num(0)
    ELSE IF ndigits + sh > 309 THEN Infinite(sgn)
    ELSE IF sh >= 0 THEN Num(sgn * mant * Pow10(sh))
    ELSE IF mant % 10 = 0 THEN NumberValue(sgn, mant \div 10, ndigits - 1, sh + 1)
    ELSE Dec(sgn * mant, -sh)

\* a JSON number whose integer part has ni digits and whose fraction has nf
\* digits (dot tells whether there is a fraction), followed by rest
JsonExponent(body, sgn, ni, dot, nf, rest) ==
    LET mant == SubSeq(body, 1, ni) \o SubSeq(body, ni + 2, ni + 1 + nf)
        signed == Len(rest) > 1 /\ rest[2] \in {"+", "-"}
        digits == From(rest, IF signed THEN 3 ELSE 2)
    IN  IF (dot /\ nf = 0) \/ ni = 0 \/ (ni > 1 /\ body[1] = "0") THEN Failed
        ELSE IF rest = <<>> \/ rest[1] \notin {"e", "E"}
             THEN Parsed(NumberValue(sgn, DecValue(mant), Len(mant), -nf), rest)
        ELSE IF DigitRun(digits) = 0 THEN Failed
        ELSE Parsed(NumberValue(sgn, DecValue(mant), Len(mant), ExponentOf(rest) - nf),
                    From(digits, DigitRun(digits) + 1))

JsonFraction(body, sgn, ni) ==
    IF Len(body) > ni /\ body[ni + 1] = "."
    THEN JsonExponent(body, sgn, ni, TRUE, DigitRun(From(body, ni + 2)),
                      From(body, ni + 2 + DigitRun(From(body, ni + 2))))
    ELSE JsonExponent(body, sgn, ni, FALSE, 0, From(body, ni + 1))

\* a JSON number at the head of s
JsonNumber(s) ==
    IF s[1] = "-" THEN JsonFraction(Tail(s), -1, DigitRun(Tail(s)))
    ELSE JsonFraction(s, 1, DigitRun(s))

\* the character an escape \c of a JSON string stands for (the escapes \b
\* and \u lie outside the model's alphabet)
Unescaped(c) == CASE c = "n" -> "\n"
                  [] c = "t" -> "\t"
                  [] c = "r" -> "\r"
                  [] c = "f" -> "\f"
                  [] c \in {"\"", "\\", "/"} -> c

\* the rest of a JSON string after its opening quote; acc holds the
\* characters read so far
RECURSIVE JsonStringBody(_, _)
JsonStringBody(s, acc) ==
    IF s = <<>> \/ s[1] \in {"\n", "\t", "\r", "\f"} THEN Failed
    ELSE IF s[1] = "\"" THEN Parsed(Str(acc), Tail(s))
    ELSE IF s[1] = "\\"
         THEN (IF Len(s) > 1 /\ s[2] \in {"n", "t", "r", "f", "\"", "\\", "/"}
               THEN JsonStringBody(From(s, 3), Append(acc, Unescaped(s[2])))
               ELSE Failed)
    ELSE JsonStringBody(Tail(s), Append(acc, s[1]))

\* a property key that is an array index: a decimal numeral without a
\* leading zero
IsIndexKey(k) == k # <<>> /\ DigitRun(k) = Len(k) /\ (Len(k) > 1 => k[1] # "0")

\* the position at which the key k enters the keys ks of an object: index
\* keys come first, in ascending order, then the other keys in the order in
\* which they were created
RECURSIVE KeyPosition(_, _, _)
KeyPosition(ks, k, i) ==
    IF i > Len(ks) THEN i
    ELSE IF IsIndexKey(k) /\ (~IsIndexKey(ks[i]) \/ DecValue(ks[i]) > DecValue(k)) THEN i
    ELSE KeyPosition(ks, k, i + 1)

InsertAt(seq, i, x) == SubSeq(seq, 1, i - 1) \o <<x>> \o From(seq, i)

\* the object with keys ks and values vs after the property k is set to v:
\* a key that exists keeps its place
SetProperty(ks, vs, k, v) ==
    IF IndexIn(ks, k) > 0
    THEN Obj(ks, [vs EXCEPT ![IndexIn(ks, k)] = v])
    ELSE Obj(InsertAt(ks, KeyPosition(ks, k, 1), k), InsertAt(vs, KeyPosition(ks, k, 1), v))

RECURSIVE JsonValueAt(_)
\* a JSON value at the head of s, after white space
JsonValue(s) == JsonValueAt(SkipWhite(s))

\* the elements of an array: after a value, a comma and the next value, or
\* the closing bracket
RECURSIVE JsonElementThen(_, _)
JsonElementSep(s, acc) ==
    IF s = <<>> THEN Failed
    ELSE IF s[1] = "," THEN JsonElementThen(JsonValue(Tail(s)), acc)
    ELSE IF s[1] = "]" THEN Parsed(Arr(acc), Tail(s))
    ELSE Failed
JsonElementThen(r, acc) ==
    IF r.ok THEN JsonElementSep(SkipWhite(r.rest), Append(acc, r.v)) ELSE Failed
JsonElements(s) ==
    IF s # <<>> /\ s[1] = "]" THEN Parsed(Arr(<<>>), Tail(s))
    ELSE JsonElementThen(JsonValue(s), <<>>)

\* the members of an object: a key, a colon and a value, then a comma and
\* the next member, or the closing brace
RECURSIVE JsonMemberKey(_, _)
JsonMemberSep(s, o) ==
    IF s = <<>> THEN Failed
    ELSE IF s[1] = "," THEN JsonMemberKey(SkipWhite(Tail(s)), o)
    ELSE IF s[1] = "}" THEN Parsed(o, Tail(s))
    ELSE Failed
JsonMemberValue(r, key, o) ==
    IF r.ok THEN JsonMemberSep(SkipWhite(r.rest), SetProperty(o.ks, o.vs, key, r.v))
    ELSE Failed
JsonMemberColon(s, key, o) ==
    IF s # <<>> /\ s[1] = ":" THEN JsonMemberValue(JsonValue(Tail(s)), key, o) ELSE Failed
JsonMemberString(k, o) ==
    IF k.ok THEN JsonMemberColon(SkipWhite(k.rest), k.v.s, o) ELSE Failed
JsonMemberKey(s, o) ==
    IF s # <<>> /\ s[1] = "\"" THEN JsonMemberString(JsonStringBody(Tail(s), <<>>), o)
    ELSE Failed
JsonMembers(s) ==
    IF s # <<>> /\ s[1] = "}" THEN Parsed(Obj(<<>>, <<>>), Tail(s))
    ELSE JsonMemberKey(s, Obj(<<>>, <<>>))

\* one of the literals null, true and false
JsonLiteral(s, word, v) ==
    IF StartsAt(s, word, 1) THEN Parsed(v, From(s, Len(word) + 1)) ELSE Failed

JsonValueAt(s) ==
    IF s = <<>> THEN Failed
    ELSE CASE s[1] = "{" -> JsonMembers(SkipWhite(Tail(s)))
           [] s[1] = "[" -> JsonElements(SkipWhite(Tail(s)))
           [] s[1] = "\"" -> JsonStringBody(Tail(s), <<>>)
           [] s[1] = "-" \/ IsDigit(s[1]) -> JsonNumber(s)
           [] s[1] = "n" -> JsonLiteral(s, <<"n", "u", "l", "l">>, Null)
           [] s[1] = "t" -> JsonLiteral(s, <<"t", "r", "u", "e">>, Bool(TRUE))
           [] s[1] = "f" -> JsonLiteral(s, <<"f", "a", "l", "s", "e">>, Bool(FALSE))
           [] OTHER -> Failed

\* JSON.parse(text): the value of the text, or a SyntaxError (ok = FALSE)
\* when the text is no JSON value followed by white space only
JsonParseEnd(r) ==
    IF r.ok /\ SkipWhite(r.rest) = <<>> THEN [ok |-> TRUE, v |-> r.v] ELSE Failed
JsonParse(text) == JsonParseEnd(JsonValue(text))

(***************************************************************************)
(* The inputs of the model.                                                *)
(***************************************************************************)
sAge == <<"a", "g", "e">>
sName == <<"n", "a", "m", "e">>
sTags == <<"t", "a", "g", "s">>
sId == <<"i", "d">>
sA == <<"a">>
sB == <<"b">>
sC == <<"c">>
sM == <<"m">>
sAB == <<"a", ".", "b">>
sABC == <<"a", ".", "b", ".", "c">>
sTagsId == <<"t", "a", "g", "s", ".", "i", "d">>
sTags0 == <<"t", "a", "g", "s", ".", "0">>
sALength == <<"a", ".", "l", "e", "n", "g", "t", "h">>
sZz == <<"z", "z">>
sX == <<"x">>
sXy == <<"x", "y">>
sAl == <<"A", "l">>
sMinusInfinity == <<"-">> \o InfinityStr

\* an object with the one key k
Obj1(k, v) == Obj(<<k>>, <<v>>)

Age25 == Obj1(sAge, Num(25))
Age35 == Obj1(sAge, Num(35))
AgeX == Obj1(sAge, Str(sX))
Age10 == Obj1(sAge, Num(10))
Age2 == Obj1(sAge, Num(2))
Age1 == Obj1(sAge, Num(1))
AgeStr2 == Obj1(sAge, Str(<<"2">>))
AgeNull == Obj1(sAge, Null)
AgeMinusInf == Obj1(sAge, Str(sMinusInfinity))
AgeMinus5 == Obj1(sAge, Num(-5))
AgeBlank == Obj(<<sAge, sM>>, <<Str(<<" ">>), Obj(<<>>, <<>>)>>)
AgeTrue == Obj1(sAge, Bool(TRUE))
NameAl == Obj1(sName, Str(sAl))
\* {"a":{"b":[{"c":1},{"c":2}]}}
Nested12 == Obj1(sA, Obj1(sB, Arr(<<Obj1(sC, Num(1)), Obj1(sC, Num(2))>>)))
\* {"a":{"b":[{"c":null},{"c":35},{"c":{"id":1}}]}}
NestedMixed == Obj1(sA, Obj1(sB, Arr(<<Obj1(sC, Null), Obj1(sC, Num(35)),
                                       Obj1(sC, Obj1(sId, Num(1)))>>)))
\* {"a":[[1,2],[3]]}
NestedArrays == Obj1(sA, Arr(<<Arr(<<Num(1), Num(2)>>), Arr(<<Num(3)>>)>>))
\* {"a":5,"tags":[]}
TagsEmpty == Obj(<<sA, sTags>>, <<Num(5), Arr(<<>>)>>)
\* {"tags":["x",35]}
TagsPrim == Obj1(sTags, Arr(<<Str(sX), Num(35)>>))
\* {"tags":[{"id":1},"xy",null]}
TagsObjFirst == Obj1(sTags, Arr(<<Obj1(sId, Num(1)), Str(sXy), Null>>))
\* {"tags":[null,{"id":1}]}
TagsNullFirst == Obj1(sTags, Arr(<<Null, Obj1(sId, Num(1))>>))

\* the records handed to flatten, getValues and matchesFilter
\* {"age":"-"} and {"age":" 9"}: a placeholder and a number with a blank
AgeDash == Obj1(sAge, Str(<<"-">>))
AgeSpaced9 == Obj1(sAge, Str(<<" ", "9">>))

RecordPool ==
    {Age25, Age35, AgeX, Age10, Age2, Age1, AgeStr2, AgeNull, AgeMinusInf, AgeMinus5,
     AgeBlank, AgeTrue, NameAl, Nested12, NestedMixed, NestedArrays, TagsEmpty,
     TagsPrim, TagsObjFirst, TagsNullFirst}

\* the records of the datasets handed to detectFields
SchemaPool ==
    {Age25, AgeBlank, NameAl, Nested12, NestedMixed, NestedArrays, TagsEmpty,
     TagsPrim, TagsObjFirst, TagsNullFirst}

\* the records of the datasets handed to filterAndSort
SortPool == {Age35, AgeX, Age10, Age2, AgeStr2, NameAl}

\* the datasets handed to filterAndSort: every sequence over SortPool, and
\* [{"age":25},{"age":35},{"age":"x"}] and [{"age":10},{"age":2},{"age":1}]
RunDatasets == SeqUpTo(SortPool, MaxRecords) \cup {<<Age25, Age35, AgeX>>, <<Age10, Age2, Age1>>}

\* the paths handed to getValues, and the fields of the filters
PathPool == {sAge, sName, sTags, sA, sAB, sABC, sTagsId, sTags0, sALength, sM, sZz, <<>>}

OperatorPool == {"contains", "equals", ">", "<", "between", "is_empty", "is_not_empty",
                 "length_equals", "length_gt", "length_lt", "starts_with"}

\* the first operands: "", "30", "x", "2", "2.7", "1e1", "AL", "0x2"
Val1Pool == {<<>>, <<"3", "0">>, sX, <<"2">>, <<"2", ".", "7">>, <<"1", "e", "1">>,
             <<"A", "L">>, <<"0", "x", "2">>}
\* the second operands: "", "35", "x"
Val2Pool == {<<>>, <<"3", "5">>, sX}

\* the second operand is read by "between" alone
FilterPool ==
    {FilterDef("1", f, op, v1, <<>>) :
        f \in PathPool \ {<<>>, sZz, sM}, op \in OperatorPool \ {"between"}, v1 \in Val1Pool}
    \cup {FilterDef("1", f, "between", v1, v2) :
        f \in PathPool \ {<<>>, sZz, sM}, v1 \in Val1Pool, v2 \in Val2Pool}

\* the filters of the lists handed to filterAndSort:
\* age > "30", age between "2" and "35", age contains "X"
AgeGt30 == FilterDef("1", sAge, ">", <<"3", "0">>, <<>>)
AgeBetween == FilterDef("2", sAge, "between", <<"2">>, <<"3", "5">>)
AgeContainsX == FilterDef("3", sAge, "contains", <<"X">>, <<>>)
RunFilterPool == {AgeGt30, AgeBetween, AgeContainsX}

\* the search strings: "", "X" and "A"
SearchPool == {<<>>, <<"X">>, <<"A">>}

SortPoolConfigs == {NoSort, SortConfig(sAge, "asc"), SortConfig(sAge, "desc")}

\* the records handed to the comparator
ComparePool == RecordPool \cup {AgeDash, AgeSpaced9}


(***************************************************************************)
(* src/components/filter-bar.tsx: the JsonExplorer component.  Its state   *)
(* is the React state of the component, the value and the pending timer    *)
(* of the useDebounce hook, and the values of the searchCache and          *)
(* filteredData memos.  An action is one event handler together with the   *)
(* render that follows it.                                                 *)
(***************************************************************************)
\* rawData, columns, search, filters, sort, selectedRows, pasteText,
\* pasteError: the useState values of these names; filterIdRef: the ref;
\* debouncedSearch: the value useDebounce returns, timer: "armed" while the
\* hook waits for the quiet interval to end, "idle" otherwise;
\* searchCache, filteredData: the memos (filteredData holds the positions in
\* rawData of the rows of the view); crashed: a render has thrown;
\* lastLoad: how the latest call of loadJson ended
VARIABLES rawData, columns, search, filters, sort, selectedRows, pasteText, pasteError,
          filterIdRef, debouncedSearch, timer, searchCache, filteredData, crashed, lastLoad

appVars == <<rawData, columns, search, filters, sort, selectedRows, pasteText, pasteError,
             filterIdRef, debouncedSearch, timer, searchCache, filteredData, crashed,
             lastLoad>>

vars == <<call, pc, ret, rawData, columns, search, filters, sort, selectedRows, pasteText,
          pasteError, filterIdRef, debouncedSearch, timer, searchCache, filteredData,
          crashed, lastLoad>>

\* the texts handed to loadJson
\* [{"a":2},{"a":"x"}]
TextRows ==
    <<"[", "{", "\"", "a", "\"", ":", "2", "}", ",", "{", "\"", "a", "\"",
      ":", "\"", "x", "\"", "}", "]">>
\* {"a":2,"b":"x"}
TextObject ==
    <<"{", "\"", "a", "\"", ":", "2", ",", "\"", "b", "\"", ":", "\"", "x", "\"", "}">>
\* [null,{"a":2}]
TextNullRow ==
    <<"[", "n", "u", "l", "l", ",", "{", "\"", "a", "\"", ":", "2", "}", "]">>
\* 5
TextNumber ==
    <<"5">>
\* {"a":
TextMalformed ==
    <<"{", "\"", "a", "\"", ":">>
\* [{"a":1e999}]
TextHuge ==
    <<"[", "{", "\"", "a", "\"", ":", "1", "e", "9", "9", "9", "}", "]">>
\* []
TextEmpty ==
    <<"[", "]">>

LoadTexts == {TextRows, TextObject, TextNullRow, TextNumber, TextMalformed, TextHuge,
              TextEmpty}
\* the texts typed into the paste box
PasteTexts == {TextMalformed, TextObject}
\* the texts typed into the search box
SearchTexts == {<<>>, <<"x">>, <<"2">>}
\* the operators and values chosen in a filter row
OperatorChoices == {"contains", ">"}
Val1Choices == {<<>>, <<"x">>}

\* the most filters that addFilter adds in one run of the model
MaxFilterId == 1

\* Array.isArray(parsed) ? parsed : [parsed]
toDataset(parsed) == IF IsArray(parsed) THEN parsed.xs ELSE <<parsed>>

\* a loadJson that takes a text JSON.parse rejects for an empty dataset
loadJsonParsedLenient(r) ==
    IF r.ok
    THEN [ok |-> TRUE, data |-> toDataset(r.v), cols |-> detectFields(toDataset(r.v))]
    ELSE [ok |-> TRUE, data |-> <<>>, cols |-> <<>>]

\* loadJson up to its state updates: the dataset and the columns it is about
\* to set, or (ok = FALSE) the Error("Invalid JSON") it throws
loadJsonParsed(r) ==
    IF r.ok
    THEN [ok |-> TRUE, data |-> toDataset(r.v), cols |-> detectFields(toDataset(r.v))]
    ELSE [ok |-> FALSE]
loadJson(text) == loadJsonParsed(JsonParse(text))

\* loadJson on each text of the model, computed once
loadJsonOf == [text \in LoadTexts \cup PasteTexts |-> loadJson(text)]

\* item[directField] in matchesFilter throws a TypeError when item is null
matchesFilterThrows(item) == IsNullish(item)

\* filterAndSort throws: with a filter set, the callback of data.filter
\* reaches matchesFilter with a record that is null and passed the search
filterAndSortThrows(data, cache, q, fs) ==
    /\ fs # <<>>
    /\ \E i \in 1..Len(data) :
           /\ matchesFilterThrows(data[i])
           /\ ToLowerCase(q) # <<>> => Includes(cache[i], ToLowerCase(q))

\* a dataset array that filterAndSort would sort in place when it has
\* filtered nothing out
dataAfterRunInPlace(data, result, st) ==
    IF st # NoSort /\ Len(result) = Len(data)
    THEN [i \in 1..Len(data) |-> data[result[i]]]
    ELSE data

\* the array data after filterAndSort has returned result: filter builds a
\* new array and [...result] copies before sorting, so data is as it was
dataAfterRun(data, result, st) == data

\* a filteredData memo that runs the pipeline on the text of the search box
pipelineQueryUndebounced(typed, debounced) == typed

\* the query the filteredData memo hands to filterAndSort: debouncedSearch
pipelineQuery(typed, debounced) == debounced

\* useDebounce(value, 200): a change of the value starts the timer anew
restartTimer(old, new, tm) == IF new # old THEN "armed" ELSE tm

hasData == Len(rawData) > 0

ParseErrorMessage == "Could not parse JSON. Check your syntax and try again."

\* a memo that keeps its value when its dependency changes
useMemoStale(old, new, changed) == old

\* useMemo(() => new, [dep]): the value is computed anew when dep changed
useMemo(old, new, changed) == IF changed THEN new ELSE old

\* the render after a handler: the searchCache memo is rebuilt when rawData
\* was set, the filteredData memo is recomputed when one of its dependencies
\* was set, which empties the selection; a throw of filterAndSort ends the
\* component.  data is the dataset the handler leaves, selection the
\* selection it leaves.
Render(data, dataChanged, recompute, selection) ==
    /\ searchCache' = useMemo(searchCache, buildSearchCache(data), dataChanged)
    /\ IF recompute /\ filterAndSortThrows(data, searchCache',
                                           pipelineQuery(search', debouncedSearch'), filters')
       THEN /\ crashed' = TRUE
            /\ rawData' = data
            /\ filteredData' = filteredData
            /\ selectedRows' = selection
       ELSE IF recompute
       THEN /\ crashed' = crashed
            /\ filteredData' = filterAndSort(data, searchCache',
                                             pipelineQuery(search', debouncedSearch'),
                                             filters', sort')
            /\ rawData' = dataAfterRun(data, filteredData', sort')
            /\ selectedRows' = {}
       ELSE /\ crashed' = crashed
            /\ rawData' = data
            /\ filteredData' = filteredData
            /\ selectedRows' = selection

\* the state updates of loadJson after JSON.parse and detectFields succeeded
Loaded(r) ==
    /\ columns' = r.cols
    /\ filters' = <<>>
    /\ sort' = NoSort
    /\ search' = <<>>
    /\ timer' = restartTimer(search, <<>>, timer)
    /\ pasteText' = <<>>
    /\ pasteError' = ""
    /\ lastLoad' = "loaded"
    /\ UNCHANGED <<debouncedSearch, filterIdRef>>
    /\ Render(r.data, TRUE, TRUE, selectedRows)

\* handleFile: reader.onload calls loadJson and alerts when it throws
HandleFileLoaded(r) ==
    IF r.ok THEN Loaded(r)
    ELSE /\ lastLoad' = "Invalid JSON"
         /\ UNCHANGED <<rawData, columns, search, filters, sort, selectedRows, pasteText,
                        pasteError, filterIdRef, debouncedSearch, timer, searchCache,
                        filteredData, crashed>>
HandleFile(text) == ~crashed /\ HandleFileLoaded(loadJsonOf[text])

\* the onChange of the paste box
SetPasteText(text) ==
    /\ ~crashed
    /\ pasteText' = text
    /\ pasteError' = ""
    /\ UNCHANGED <<rawData, columns, search, filters, sort, selectedRows, filterIdRef,
                   debouncedSearch, timer, searchCache, filteredData, crashed, lastLoad>>

HandlePasteLoaded(r) ==
    IF r.ok THEN Loaded(r)
    ELSE /\ pasteError' = ParseErrorMessage
         /\ lastLoad' = "Invalid JSON"
         /\ UNCHANGED <<rawData, columns, search, filters, sort, selectedRows, pasteText,
                        filterIdRef, debouncedSearch, timer, searchCache, filteredData,
                        crashed>>
HandlePasteSubmit ==
    /\ ~crashed
    /\ Trim(pasteText) # <<>>
    /\ HandlePasteLoaded(loadJsonOf[pasteText])

clearData ==
    /\ ~crashed
    /\ hasData
    /\ columns' = <<>>
    /\ filters' = <<>>
    /\ sort' = NoSort
    /\ search' = <<>>
    /\ timer' = restartTimer(search, <<>>, timer)
    /\ UNCHANGED <<pasteText, pasteError, filterIdRef, debouncedSearch, lastLoad>>
    /\ Render(<<>>, TRUE, TRUE, {})

resetAll ==
    /\ ~crashed
    /\ hasData
    /\ filters' = <<>>
    /\ sort' = NoSort
    /\ search' = <<>>
    /\ timer' = restartTimer(search, <<>>, timer)
    /\ UNCHANGED <<columns, pasteText, pasteError, filterIdRef, debouncedSearch, lastLoad>>
    /\ Render(rawData, FALSE, TRUE, selectedRows)

\* the onChange of the search box
SetSearch(text) ==
    /\ ~crashed
    /\ hasData
    /\ search' = text
    /\ timer' = restartTimer(search, text, timer)
    /\ UNCHANGED <<columns, filters, sort, pasteText, pasteError, filterIdRef,
                   debouncedSearch, lastLoad>>
    /\ Render(rawData, FALSE, FALSE, selectedRows)

\* useDebounce: the quiet interval ends and the hook takes the value over
DebounceFire ==
    /\ ~crashed
    /\ timer = "armed"
    /\ debouncedSearch' = search
    /\ timer' = "idle"
    /\ UNCHANGED <<columns, search, filters, sort, pasteText, pasteError, filterIdRef,
                   lastLoad>>
    /\ Render(rawData, FALSE, search # debouncedSearch, selectedRows)

\* a handler that sets the filters to fs
FiltersSet(fs) ==
    /\ filters' = fs
    /\ UNCHANGED <<columns, search, sort, pasteText, pasteError, debouncedSearch, timer,
                   lastLoad>>
    /\ Render(rawData, FALSE, TRUE, selectedRows)

addFilter ==
    /\ ~crashed
    /\ hasData
    /\ Len(columns) # 0
    /\ filterIdRef < MaxFilterId
    /\ filterIdRef' = filterIdRef + 1
    /\ FiltersSet(Append(filters, FilterDef(IntToString(filterIdRef + 1), columns[1],
                                            "contains", <<>>, <<>>)))

\* FilterBar: update(id, patch) with patch = { field }, { operator } or { val1 }
UpdateField(id, field) ==
    /\ ~crashed
    /\ \E i \in 1..Len(filters) : filters[i].id = id
    /\ UNCHANGED filterIdRef
    /\ FiltersSet([i \in 1..Len(filters) |->
                      IF filters[i].id = id THEN [filters[i] EXCEPT !.field = field]
                      ELSE filters[i]])

UpdateOperator(id, operator) ==
    /\ ~crashed
    /\ \E i \in 1..Len(filters) : filters[i].id = id
    /\ UNCHANGED filterIdRef
    /\ FiltersSet([i \in 1..Len(filters) |->
                      IF filters[i].id = id THEN [filters[i] EXCEPT !.operator = operator]
                      ELSE filters[i]])

UpdateVal1(id, val1) ==
    /\ ~crashed
    /\ \E i \in 1..Len(filters) :
           filters[i].id = id /\ filters[i].operator \notin {"is_empty", "is_not_empty"}
    /\ UNCHANGED filterIdRef
    /\ FiltersSet([i \in 1..Len(filters) |->
                      IF filters[i].id = id THEN [filters[i] EXCEPT !.val1 = val1]
                      ELSE filters[i]])

\* FilterBar: remove(id)
RemoveFilter(id) ==
    /\ ~crashed
    /\ \E i \in 1..Len(filters) : filters[i].id = id
    /\ UNCHANGED filterIdRef
    /\ FiltersSet(SelectSeq(filters, LAMBDA f : f.id # id))

handleSort(field) ==
    /\ ~crashed
    /\ hasData
    /\ sort' = IF sort # NoSort /\ sort.field = field
               THEN SortConfig(field, IF sort.direction = "asc" THEN "desc" ELSE "asc")
               ELSE SortConfig(field, "asc")
    /\ UNCHANGED <<columns, search, filters, pasteText, pasteError, filterIdRef,
                   debouncedSearch, timer, lastLoad>>
    /\ Render(rawData, FALSE, TRUE, selectedRows)

\* the indices of the rows of the view (filteredData.map((_, i) => i))
viewIndices == 0..(Len(filteredData) - 1)

toggleRow(index) ==
    /\ ~crashed
    /\ hasData
    /\ selectedRows' = IF index \in selectedRows THEN selectedRows \ {index}
                       ELSE selectedRows \cup {index}
    /\ UNCHANGED <<rawData, columns, search, filters, sort, pasteText, pasteError,
                   filterIdRef, debouncedSearch, timer, searchCache, filteredData, crashed,
                   lastLoad>>

toggleAllRows ==
    /\ ~crashed
    /\ hasData
    /\ selectedRows' = IF Cardinality(selectedRows) = Len(filteredData) THEN {}
                       ELSE viewIndices
    /\ UNCHANGED <<rawData, columns, search, filters, sort, pasteText, pasteError,
                   filterIdRef, debouncedSearch, timer, searchCache, filteredData, crashed,
                   lastLoad>>

\* Boolean(v): the values that are not falsy
Truthy(v) ==
    CASE v.t \in {"null", "undef"} -> FALSE
      [] v.t = "bool" -> v.b
      [] v.t = "num" -> v.n # 0
      [] v.t = "str" -> v.s # <<>>
      [] OTHER -> TRUE

\* [...selectedRows].sort((a, b) => a - b)
RECURSIVE sortedRows(_)
sortedRows(rows) ==
    IF rows = {} THEN <<>>
    ELSE <<CHOOSE i \in rows : \A j \in rows : i <= j>>
             \o sortedRows(rows \ {CHOOSE i \in rows : \A j \in rows : i <= j})

\* .map((i) => filteredData[i]), the rows of the view being records here
rowsAt(view, indices) ==
    [k \in 1..Len(indices) |->
        IF indices[k] + 1 \in 1..Len(view) THEN view[indices[k] + 1] ELSE Undefined]

\* no file is downloaded
NoDownload == <<"no download">>

\* the text of the file that exportSelected downloads
exportItems(items) == IF Len(items) = 0 THEN NoDownload ELSE StringifyPretty(items)
exportSelected(rows, view) ==
    exportItems(SelectSeq(rowsAt(view, sortedRows(rows)), Truthy))

\* the text of the file that exportFiltered downloads
exportFiltered(view) == StringifyPretty(view)

\* the state of the component when it is mounted
Mounted ==
    /\ rawData = <<>>
    /\ columns = <<>>
    /\ search = <<>>
    /\ filters = <<>>
    /\ sort = NoSort
    /\ selectedRows = {}
    /\ pasteText = <<>>
    /\ pasteError = ""
    /\ filterIdRef = 0
    /\ debouncedSearch = <<>>
    /\ timer = "idle"
    /\ searchCache = <<>>
    /\ filteredData = <<>>
    /\ crashed = FALSE
    /\ lastLoad = "none"

(***************************************************************************)
(* The calls the model makes: each initial state holds one call of one     *)
(* function with its arguments, and the function's action runs it.         *)
(***************************************************************************)
FlattenCall(o) == [fn |-> "flatten", obj |-> o]
DetectCall(d) == [fn |-> "detectFields", data |-> d]
GetValuesCall(o, p) == [fn |-> "getValues", obj |-> o, path |-> p]
MatchCall(o, f) == [fn |-> "matchesFilter", item |-> o, filter |-> f]
CompareCall(a, b, s) == [fn |-> "compare", a |-> a, b |-> b, sort |-> s]
RunCall(d, q, fs, s) ==
    [fn |-> "filterAndSort", data |-> d, searchCache |-> buildSearchCache(d),
     search |-> q, filters |-> fs, sort |-> s]

\* the records of the views that are exported: records of loaded datasets
ExportRecords ==
    Range(loadJsonOf[TextRows].data) \cup Range(loadJsonOf[TextNullRow].data)
        \cup Range(loadJsonOf[TextHuge].data)

ExportFilteredCall(view) == [fn |-> "exportFiltered", filteredData |-> view]
ExportSelectedCall(view, rows) ==
    [fn |-> "exportSelected", filteredData |-> view, selectedRows |-> rows]

Init ==
    /\ \/ \E o \in RecordPool : call = FlattenCall(o)
       \/ \E d \in SeqUpTo(SchemaPool, MaxRecords) : call = DetectCall(d)
       \/ \E o \in RecordPool, p \in PathPool : call = GetValuesCall(o, p)
       \/ \E o \in RecordPool, f \in FilterPool : call = MatchCall(o, f)
       \/ \E a \in ComparePool, b \in ComparePool, s \in SortPoolConfigs \ {NoSort} :
              call = CompareCall(a, b, s)
       \/ \E d \in RunDatasets, q \in SearchPool,
             fs \in SeqUpTo(RunFilterPool, MaxFilters), s \in SortPoolConfigs :
              call = RunCall(d, q, fs, s)
       \/ \E view \in SeqUpTo(ExportRecords, MaxRecords) : call = ExportFilteredCall(view)
       \/ \E view \in SeqUpTo(ExportRecords, MaxRecords) :
              \E rows \in SUBSET (0..(Len(view) - 1)) : call = ExportSelectedCall(view, rows)
    /\ pc = "call"
    /\ ret = <<>>
    /\ Mounted

Returns(fn, value) ==
    /\ pc = "call"
    /\ call.fn = fn
    /\ pc' = "return"
    /\ ret' = value
    /\ UNCHANGED call
    /\ UNCHANGED appVars

Flatten == call.fn = "flatten" /\ Returns("flatten", flatten(call.obj, <<>>))

DetectFields == call.fn = "detectFields" /\ Returns("detectFields", detectFields(call.data))

GetValues == call.fn = "getValues" /\ Returns("getValues", getValues(call.obj, call.path))

MatchesFilter ==
    call.fn = "matchesFilter" /\ Returns("matchesFilter", matchesFilter(call.item, call.filter))

Compare == call.fn = "compare" /\ Returns("compare", compare(call.a, call.b, call.sort))

FilterAndSort ==
    /\ call.fn = "filterAndSort"
    /\ Returns("filterAndSort",
               filterAndSort(call.data, call.searchCache, call.search, call.filters, call.sort))

ExportFiltered ==
    call.fn = "exportFiltered" /\ Returns("exportFiltered", exportFiltered(call.filteredData))

ExportSelected ==
    /\ call.fn = "exportSelected"
    /\ Returns("exportSelected", exportSelected(call.selectedRows, call.filteredData))

Next ==
    \/ Flatten
    \/ DetectFields
    \/ GetValues
    \/ MatchesFilter
    \/ Compare
    \/ FilterAndSort
    \/ ExportFiltered
    \/ ExportSelected

Spec == Init /\ [][Next]_vars

(***************************************************************************)
(* The JsonExplorer component: from its mounting, any sequence of its      *)
(* event handlers and of expiries of the debounce timer.                   *)
(***************************************************************************)
ExplorerInit ==
    /\ Mounted
    /\ call = [fn |-> "none"]
    /\ pc = "idle"
    /\ ret = <<>>

\* the variables of the harness of the function calls, which no handler touches
harness == <<call, pc, ret>>

ExplorerNext ==
    \/ \E text \in LoadTexts : HandleFile(text) /\ UNCHANGED harness
    \/ \E text \in PasteTexts : SetPasteText(text) /\ UNCHANGED harness
    \/ HandlePasteSubmit /\ UNCHANGED harness
    \/ clearData /\ UNCHANGED harness
    \/ resetAll /\ UNCHANGED harness
    \/ \E text \in SearchTexts : SetSearch(text) /\ UNCHANGED harness
    \/ DebounceFire /\ UNCHANGED harness
    \/ addFilter /\ UNCHANGED harness
    \/ \E i \in 1..Len(filters), field \in Range(columns) :
           UpdateField(filters[i].id, field) /\ UNCHANGED harness
    \/ \E i \in 1..Len(filters), operator \in OperatorChoices :
           UpdateOperator(filters[i].id, operator) /\ UNCHANGED harness
    \/ \E i \in 1..Len(filters), val1 \in Val1Choices :
           UpdateVal1(filters[i].id, val1) /\ UNCHANGED harness
    \/ \E i \in 1..Len(filters) : RemoveFilter(filters[i].id) /\ UNCHANGED harness
    \/ \E field \in Range(columns) : handleSort(field) /\ UNCHANGED harness
    \/ \E index \in viewIndices : toggleRow(index) /\ UNCHANGED harness
    \/ toggleAllRows /\ UNCHANGED harness

Explorer == ExplorerInit /\ [][ExplorerNext]_vars

\* A timer that is left armed expires: WF_vars(DebounceFire /\ UNCHANGED harness).
\* DebounceFire is enabled exactly when the component has not crashed and
\* the timer is armed, and each of its steps leaves the timer idle, so that
\* this weak fairness is the formula below, which is stated without ENABLED.
ExplorerFair == Explorer /\ []<>(crashed \/ timer = "idle")

(***************************************************************************)
(* Properties.                                                             *)
(***************************************************************************)
Returned(fn) == pc = "return" /\ call.fn = fn

\* C1: the output of filterAndSort is a permutation-subset of the dataset:
\* every output element is a record of the dataset, no record is output twice
\* (none is duplicated or synthesized), and without a sort the kept records
\* are in dataset order.
C1_PermutationSubset ==
    Returned("filterAndSort") =>
        /\ \A k \in 1..Len(ret) : ret[k] \in 1..Len(call.data)
        /\ \A j, k \in 1..Len(ret) : j # k => ret[j] # ret[k]
        /\ call.sort = NoSort => \A j, k \in 1..Len(ret) : j < k => ret[j] < ret[k]

\* a run that filtered some records out and reordered the ones it kept
C1_Witness ==
    /\ Returned("filterAndSort")
    /\ call.sort # NoSort
    /\ Len(call.filters) > 0
    /\ Len(ret) = 2
    /\ Len(call.data) = 3
    /\ ret[1] > ret[2]

\* the cached text of the record at position i of the run's dataset
CachedText(i) == call.searchCache[i]

\* every filter of the run's list passes the record at position i
AllFiltersPass(i) == \A k \in 1..Len(call.filters) : matchesFilter(call.data[i], call.filters[k])

\* C2 as stated: a record is kept iff the search predicate and every filter
\* pass, where a non-empty search string passes exactly when it is a substring
\* of the record's cached text.
C2_Original ==
    Returned("filterAndSort") =>
        \A i \in 1..Len(call.data) :
            i \in Range(ret) <=>
                /\ call.search = <<>> \/ Includes(CachedText(i), call.search)
                /\ AllFiltersPass(i)

\* C2, amended: a record is kept iff the search predicate and every filter
\* pass; an empty search string passes every record, a non-empty one passes
\* exactly when its lower-cased form is a substring of the record's cached
\* text, and an empty filter list passes trivially.
C2_KeptIffSearchAndFilters ==
    Returned("filterAndSort") =>
        /\ \A i \in 1..Len(call.data) :
               i \in Range(ret) <=>
                   /\ call.search = <<>> \/ Includes(CachedText(i), ToLowerCase(call.search))
                   /\ AllFiltersPass(i)
        /\ (call.search = <<>> /\ call.filters = <<>>) => Range(ret) = 1..Len(call.data)

\* a run with an upper-case search string and two filters that kept one
\* record and dropped one that passes the search and just one of the filters
C2_Witness ==
    /\ Returned("filterAndSort")
    /\ call.search # <<>>
    /\ Len(call.filters) = 2
    /\ Len(ret) = 1
    /\ \E i \in 1..Len(call.data) :
           /\ i \notin Range(ret)
           /\ Includes(CachedText(i), ToLowerCase(call.search))
           /\ matchesFilter(call.data[i], call.filters[1])
           /\ ~matchesFilter(call.data[i], call.filters[2])

\* the filter is in the top-level-array case of matchesFilter
IsArrayCase(item, filter) ==
    /\ ~Includes(filter.field, <<".">>)
    /\ IsArray(Prop(item, filter.field))

\* a string parses as a number
Parses(s) == ParseFloat(s) # NaN

\* the operator table of the filter evaluator, for one non-null value
Satisfies(v, filter) ==
    LET str == JsString(v)
        op  == filter.operator
    IN  \/ op = "contains" /\ Includes(ToLowerCase(str), ToLowerCase(filter.val1))
        \/ op = "equals" /\ str = filter.val1
        \/ op = ">" /\ Parses(str) /\ Parses(filter.val1)
                    /\ NumOrder(ParseFloat(str), ParseFloat(filter.val1)) = "gt"
        \/ op = "<" /\ Parses(str) /\ Parses(filter.val1)
                    /\ NumOrder(ParseFloat(str), ParseFloat(filter.val1)) = "lt"
        \/ op = "between" /\ Parses(str) /\ Parses(filter.val1) /\ Parses(filter.val2)
                    /\ NumOrder(ParseFloat(filter.val1), ParseFloat(str)) \in {"lt", "eq"}
                    /\ NumOrder(ParseFloat(str), ParseFloat(filter.val2)) \in {"lt", "eq"}
        \/ op = "is_empty" /\ Trim(str) = <<>>
        \/ op = "is_not_empty" /\ Trim(str) # <<>>

\* the values the call's filter field resolves to on the call's item
Resolved == getValues(call.item, call.filter.field)

\* C3: outside the top-level-array case, matchesFilter is true iff some value
\* resolved for the field is non-null and satisfies the operator; so null
\* values never match, a field that resolves to no value rejects the record
\* for every operator, and an unrecognized operator rejects every record.
C3_AnyNonNullValueSatisfies ==
    (Returned("matchesFilter") /\ ~IsArrayCase(call.item, call.filter)) =>
        /\ ret <=> \E i \in 1..Len(Resolved) :
                       Resolved[i] # Null /\ Satisfies(Resolved[i], call.filter)
        /\ (\A i \in 1..Len(Resolved) : Resolved[i] = Null) => ~ret
        /\ call.filter.operator \in {"starts_with", "length_equals", "length_gt", "length_lt"}
               => ~ret

\* a filter that matches on one value of a fan-out whose first value is null
C3_Witness ==
    /\ Returned("matchesFilter")
    /\ ~IsArrayCase(call.item, call.filter)
    /\ Len(Resolved) > 1
    /\ Resolved[1] = Null
    /\ call.filter.operator = ">"
    /\ ret

\* a string parsed as an integer: the number, or NaN
IntegerOperand(s) == ParseInt(s)

\* C4: in the top-level-array case matchesFilter depends only on the array's
\* length and the operator: is_empty iff the length is 0, is_not_empty iff it
\* is not, the length operators compare the length with operand1 parsed as an
\* integer, and every other operator returns true.
C4_ArrayCaseByLength ==
    (Returned("matchesFilter") /\ IsArrayCase(call.item, call.filter)) =>
        LET length == Len(Prop(call.item, call.filter.field).xs)
            op     == call.filter.operator
            n      == IntegerOperand(call.filter.val1)
        IN  ret <=>
              CASE op = "is_empty"      -> length = 0
                [] op = "is_not_empty"  -> length # 0
                [] op = "length_equals" -> n # NaN /\ n.m = length
                [] op = "length_gt"     -> n # NaN /\ length > n.m
                [] op = "length_lt"     -> n # NaN /\ length < n.m
                [] OTHER -> TRUE

\* length_equals "2.7" matching an array of two elements
C4_Witness ==
    /\ Returned("matchesFilter")
    /\ IsArrayCase(call.item, call.filter)
    /\ call.filter.operator = "length_equals"
    /\ call.filter.val1 = <<"2", ".", "7">>
    /\ Len(Prop(call.item, call.filter.field).xs) = 2
    /\ ret

\* C5: the numeric operators fail closed.  Outside the top-level-array case,
\* ">" and "<" match only on a value that parses, against an operand1 that
\* parses; "between" matches exactly on a value v that parses with operand1
\* and operand2 parsing and operand1 <= v <= operand2; and filtering
\* [{"age":25},{"age":35},{"age":"x"}] with age > "30" yields [{"age":35}].
C5_NumericFailClosed ==
    /\ (Returned("matchesFilter") /\ ~IsArrayCase(call.item, call.filter)) =>
           LET op == call.filter.operator
               v1 == ParseFloat(call.filter.val1)
               v2 == ParseFloat(call.filter.val2)
               Num1(i) == ParseFloat(JsString(Resolved[i]))
               Usable(i) == Resolved[i] # Null /\ Num1(i) # NaN /\ v1 # NaN
           IN  /\ op = ">" =>
                     (ret <=> \E i \in 1..Len(Resolved) :
                                  Usable(i) /\ NumOrder(Num1(i), v1) = "gt")
               /\ op = "<" =>
                     (ret <=> \E i \in 1..Len(Resolved) :
                                  Usable(i) /\ NumOrder(Num1(i), v1) = "lt")
               /\ op = "between" =>
                     (ret <=> \E i \in 1..Len(Resolved) :
                                  /\ Usable(i) /\ v2 # NaN
                                  /\ NumOrder(v1, Num1(i)) \in {"lt", "eq"}
                                  /\ NumOrder(Num1(i), v2) \in {"lt", "eq"})
    /\ (/\ Returned("filterAndSort")
        /\ call.data = <<Age25, Age35, AgeX>>
        /\ call.search = <<>>
        /\ call.filters = <<AgeGt30>>
        /\ call.sort = NoSort) => ret = <<2>>

\* the run of the example has returned
C5_Witness ==
    /\ Returned("filterAndSort")
    /\ call.data = <<Age25, Age35, AgeX>>
    /\ call.search = <<>>
    /\ call.filters = <<AgeGt30>>
    /\ call.sort = NoSort
    /\ ret = <<2>>

\* the value at key of a candidate, as the candidates of the next segment
Expand(c, key) ==
    IF c.t \notin {"obj", "arr"} \/ Prop(c, key) = Undefined THEN <<>>
    ELSE IF Prop(c, key).t = "arr" THEN Prop(c, key).xs
    ELSE <<Prop(c, key)>>

\* the path resolver: from the candidates cs, segment by segment
RECURSIVE Resolve(_, _)
Resolve(cs, segments) ==
    IF segments = <<>> THEN cs
    ELSE Resolve(Concat([i \in 1..Len(cs) |-> Expand(cs[i], Head(segments))]), Tail(segments))

\* C6: getValues returns the sequence obtained from [record] by replacing, per
\* segment of the path, each non-null object candidate by its property value
\* (by its elements, in order, when that value is an array) and dropping the
\* other candidates and absent properties; resolve of
\* {"a":{"b":[{"c":1},{"c":2}]}} at "a.b.c" is [1, 2].
C6_ResolveFanOut ==
    Returned("getValues") =>
        /\ ret = Resolve(<<call.obj>>, SplitDots(call.path))
        /\ (call.obj = Nested12 /\ call.path = sABC) => ret = <<Num(1), Num(2)>>

\* the resolve of the example has returned [1, 2]
C6_Witness ==
    /\ Returned("getValues")
    /\ call.obj = Nested12
    /\ call.path = sABC
    /\ ret = <<Num(1), Num(2)>>

\* the deduplicated, first-seen-order union of flatten(r) over the records
FlattenUnion(data) ==
    LET all == Concat([i \in 1..Len(data) |-> flatten(data[i], <<>>)])
        first == {i \in 1..Len(all) : \A j \in 1..(i - 1) : all[j] # all[i]}
    IN  [k \in 1..Cardinality(first) |->
            all[CHOOSE i \in first : Cardinality({j \in first : j < i}) = k - 1]]

\* the members of a candidate at key: the elements of an array found there
\* (the fan-out of an intermediate segment), or the value itself
Members(c, key) ==
    IF Prop(c, key) = Undefined THEN <<>>
    ELSE IF Prop(c, key).t = "arr" THEN Prop(c, key).xs
    ELSE <<Prop(c, key)>>

\* the values at the positions of record r that the segments denote: arrays
\* met before the last segment fan out, the value at the last segment is
\* taken as it is
RECURSIVE ValuesAt(_, _)
ValuesAt(cs, segments) ==
    IF Len(segments) = 1
    THEN {Prop(cs[i], segments[1]) : i \in 1..Len(cs)} \ {Undefined}
    ELSE ValuesAt(Concat([i \in 1..Len(cs) |-> Members(cs[i], Head(segments))]), Tail(segments))

PositionsOf(r, path) == ValuesAt(<<r>>, SplitDots(path))

\* a non-null plain object
IsPlainObject(v) == v.t = "obj"
\* an array whose first element is a non-null object
IsObjectArray(v) == v.t = "arr" /\ v.xs # <<>> /\ v.xs[1].t \in {"obj", "arr"}

\* C7 as stated: detectFields(D) is the deduplicated first-seen-order union of
\* flatten(r), and no path in it denotes, in any record of D, a position whose
\* value is a non-null plain object or an array of objects.
C7_Original ==
    Returned("detectFields") =>
        /\ ret = FlattenUnion(call.data)
        /\ \A k \in 1..Len(ret), i \in 1..Len(call.data) :
               \A w \in PositionsOf(call.data[i], ret[k]) :
                   ~IsPlainObject(w) /\ ~IsObjectArray(w)

\* C7, amended: detectFields(D) is the deduplicated first-seen-order union of
\* flatten(r) over the records of D front to back, without repetitions, and
\* every path in it denotes, in at least one record of D, a position whose
\* value is neither a non-null plain object nor an array whose first element
\* is a non-null object.
C7_UnionOfLeafPaths ==
    Returned("detectFields") =>
        /\ ret = FlattenUnion(call.data)
        /\ \A j, k \in 1..Len(ret) : j # k => ret[j] # ret[k]
        /\ \A k \in 1..Len(ret) :
               \E i \in 1..Len(call.data) :
                   \E w \in PositionsOf(call.data[i], ret[k]) :
                       ~IsPlainObject(w) /\ ~IsObjectArray(w)

\* a dataset of three records that share paths, one of which is a leaf in
\* one record and an object in another
C7_Witness ==
    /\ Returned("detectFields")
    /\ Len(call.data) = 3
    /\ Len(ret) >= 3
    /\ Len(ret) < Len(Concat([i \in 1..Len(call.data) |-> flatten(call.data[i], <<>>)]))
    /\ \E k \in 1..Len(ret), i \in 1..Len(call.data) :
           \E w \in PositionsOf(call.data[i], ret[k]) : IsPlainObject(w)

\* flatten as C8 states it: the path of an empty object is a leaf
RECURSIVE LeafPaths(_, _)
LeafPathsOf(path, val) ==
    IF val.t = "arr" /\ val.xs # <<>> /\ val.xs[1].t \in {"obj", "arr"}
    THEN Concat([i \in 1..Len(val.xs) |-> LeafPaths(val.xs[i], path)])
    ELSE IF val.t = "obj" /\ val.ks # <<>>
    THEN LeafPaths(val, path)
    ELSE <<path>>

LeafPaths(obj, prefix) ==
    Concat([i \in 1..Len(ForInKeys(obj)) |->
               LeafPathsOf(JoinPath(prefix, ForInKeys(obj)[i]), Prop(obj, ForInKeys(obj)[i]))])

\* C8: flatten emits the path of a key as a leaf exactly when its value is a
\* primitive, null, an empty object, an empty array, or an array whose first
\* element is not a non-null object; it recurses into a non-empty object, and
\* into every element of an array whose first element is a non-null object,
\* without emitting the path.
C8_LeafRule == Returned("flatten") => ret = LeafPaths(call.obj, <<>>)

\* the result of step 1 of the run: the kept positions, in dataset order
Step1 == filterStep(call.data, call.searchCache, ToLowerCase(call.search), call.filters)

\* the comparator's result for the records at positions i and j of the dataset
Compared(i, j) == compare(call.data[i], call.data[j], call.sort)

FirstString(r, field) ==
    IF getValues(r, field) = <<>> THEN <<>> ELSE JsString(getValues(r, field)[1])

\* the first resolved value of the field ("" if there is none or it is null)
FirstStringNotNull(r, field) ==
    IF getValues(r, field) = <<>> \/ getValues(r, field)[1] = Null
    THEN <<>>
    ELSE JsString(getValues(r, field)[1])

\* the sign of the order of two numbers
OrderSign(x, y) == CASE NumOrder(x, y) = "lt" -> "neg"
                     [] NumOrder(x, y) = "gt" -> "pos"
                     [] OTHER -> "zero"

IsFinite(x) == x.k = "fin"

\* the ascending order of two strings as C10 states it: numeric when both
\* parse as finite numbers, by their string forms otherwise
AscendingFinite(x, y) ==
    IF IsFinite(ParseFloat(x)) /\ IsFinite(ParseFloat(y))
    THEN OrderSign(ParseFloat(x), ParseFloat(y))
    ELSE LocaleCompare(x, y)

\* the ascending order of two strings: numeric when both parse as numbers
\* (the infinities included), by their string forms otherwise
AscendingNumeric(x, y) ==
    IF ParseFloat(x) # NaN /\ ParseFloat(y) # NaN
    THEN OrderSign(ParseFloat(x), ParseFloat(y))
    ELSE LocaleCompare(x, y)

\* a comparator result, with the NaN of two equal infinities read as equal
AsSign(c) == IF c = "nan" THEN "zero" ELSE c

\* the call's sort with the direction asc
Ascending == SortConfig(call.sort.field, "asc")

SortedExample ==
    (/\ Returned("filterAndSort")
     /\ call.data = <<Age10, Age2, Age1>>
     /\ call.search = <<>>
     /\ call.filters = <<>>
     /\ call.sort = SortConfig(sAge, "asc")) => ret = <<3, 2, 1>>

\* C10 as stated: the comparator takes the first resolved value on each side
\* ("" if none); if both parse as finite numbers it orders them numerically,
\* otherwise it orders their string forms; desc is the negation of asc.
C10_Original ==
    /\ Returned("compare") =>
           LET asc == AscendingFinite(FirstString(call.a, call.sort.field),
                                      FirstString(call.b, call.sort.field))
           IN  AsSign(ret) = IF call.sort.direction = "asc" THEN asc ELSE Negate(asc)
    /\ SortedExample

\* C10, amended: the comparator takes the first resolved value on each side
\* ("" if there is none or if it is null); if both parse as numbers, the
\* infinities included, it orders them numerically (two equal infinities as
\* equal), otherwise it orders their string forms; desc yields the negation
\* of the asc result for every pair; and sorting
\* [{"age":10},{"age":2},{"age":1}] ascending by age yields 1, 2, 10.
C10_Comparator ==
    /\ Returned("compare") =>
           LET asc == AscendingNumeric(FirstStringNotNull(call.a, call.sort.field),
                                       FirstStringNotNull(call.b, call.sort.field))
           IN  /\ AsSign(ret) = IF call.sort.direction = "asc" THEN asc ELSE Negate(asc)
               /\ call.sort.direction = "desc" =>
                      ret = Negate(compare(call.a, call.b, Ascending))
    /\ SortedExample

\* the comparator has put a null age before the age 2, ascending
C10_Witness ==
    /\ Returned("compare")
    /\ call.a = AgeNull
    /\ call.b = Age2
    /\ call.sort = SortConfig(sAge, "asc")
    /\ ret = "neg"

(***************************************************************************)
(* The claims about the component, checked under Explorer.                 *)
(***************************************************************************)
\* a step that replaces the dataset: a load from a file or from the paste
\* box, or Close
ReplacesDataset ==
    \/ \E text \in LoadTexts : HandleFile(text)
    \/ HandlePasteSubmit
    \/ clearData

\* the view that a run of the pipeline on the current state yields
FreshView == filterAndSort(rawData, searchCache, debouncedSearch, filters, sort)

Malformed == {text \in LoadTexts \cup PasteTexts : ~JsonParse(text).ok}

\* C12: a load of a text that is not JSON, from a file or from the paste
\* box, signals the error to its caller (the alert of handleFile, the
\* message under the paste box) and leaves the dataset, the columns, the
\* filters, the sort, the search text and the selection as they were.
C12_MalformedLoadLeavesState ==
    [][/\ \A text \in Malformed \cap LoadTexts :
              HandleFile(text) =>
                  /\ lastLoad' = "Invalid JSON"
                  /\ UNCHANGED <<rawData, columns, filters, sort, search, selectedRows>>
       /\ (HandlePasteSubmit /\ pasteText \in Malformed) =>
              /\ pasteError' = ParseErrorMessage
              /\ UNCHANGED <<rawData, columns, filters, sort, search, selectedRows>>]_vars

\* both loads of a text that is not JSON have failed on a dataset with a
\* filter, a search text and a selected row
C12_Witness ==
    /\ lastLoad = "Invalid JSON"
    /\ pasteError = ParseErrorMessage
    /\ hasData
    /\ filters # <<>>
    /\ search # <<>>
    /\ selectedRows # {}

\* JSON.parse on each text that is loaded, computed once
ParsedTexts == [text \in LoadTexts |-> JsonParse(text)]

\* C13: a load succeeds only for JSON whose top-level value is an array,
\* which becomes the dataset as it is, or an object, which becomes a dataset
\* of one record; every other text, JSON whose top-level value is a number,
\* a string, a boolean or null included, yields the parse-error signal and
\* leaves the dataset as it was.
C13_LoadAcceptsObjectOrArray ==
    [][\A text \in LoadTexts :
           HandleFile(text) =>
               IF ParsedTexts[text].ok /\ ParsedTexts[text].v.t = "arr"
               THEN lastLoad' = "loaded" /\ rawData' = ParsedTexts[text].v.xs
               ELSE IF ParsedTexts[text].ok /\ ParsedTexts[text].v.t = "obj"
               THEN lastLoad' = "loaded" /\ rawData' = <<ParsedTexts[text].v>>
               ELSE lastLoad' = "Invalid JSON" /\ rawData' = rawData]_vars

\* C14: in every state the component reaches, the columns are detectFields
\* of the dataset and the search cache holds, for each record of the
\* dataset, its JSON text in lower case; the two change only in a step that
\* replaces the dataset, in which all three are set together.
C14_SchemaAndCacheOfDataset ==
    [][/\ columns = detectFields(rawData)
       /\ searchCache = buildSearchCache(rawData)
       /\ (columns' # columns \/ searchCache' # searchCache) =>
              ReplacesDataset /\ rawData' # rawData]_vars

\* the dataset of one object is loaded, with its two columns and a cache of
\* one text, in a run of the component in which a filter has been added
C14_Witness ==
    /\ rawData = loadJsonOf[TextObject].data
    /\ columns = <<<<"a">>, <<"b">>>>
    /\ Len(searchCache) = 1
    /\ lastLoad = "loaded"
    /\ filterIdRef = 1

\* C15: the search text is debounced, the latest text winning: the query
\* of the pipeline changes only when the timer expires, and then to the
\* text the search box holds at that moment, so that no text typed and
\* replaced while the timer ran is ever run; every view is the result for
\* the debounced text; and, the timer expiring whenever it is left armed,
\* the view is again and again the result for the text in the search box.
C15_DebounceLatestWins ==
    /\ [][/\ debouncedSearch' # debouncedSearch =>
                 /\ timer = "armed"
                 /\ timer' = "idle"
                 /\ search' = search
                 /\ debouncedSearch' = search
          /\ ~crashed => filteredData = FreshView]_vars
    /\ []<>(crashed \/ (/\ debouncedSearch = search
                        /\ filteredData = filterAndSort(rawData, searchCache, search,
                                                        filters, sort)))

\* after x was typed into the search box and the timer has expired, the
\* view holds the one record of the two whose text contains x
C15_Witness ==
    /\ rawData = loadJsonOf[TextRows].data
    /\ search = <<"x">>
    /\ debouncedSearch = <<"x">>
    /\ timer = "idle"
    /\ filteredData = <<2>>

\* C19: for every dataset that a load accepts, arrays with null or
\* primitive elements and single values included, and every filter list
\* that the filter bar can build on its columns, each run of the filter and
\* sort pipeline completes: filterAndSort never throws.
C19_PipelineNeverThrows == ~crashed

\* a load, from a file or from the paste box, that succeeds
SuccessfulLoad ==
    \/ \E text \in LoadTexts \ Malformed : HandleFile(text)
    \/ HandlePasteSubmit /\ pasteText \notin Malformed

\* C20: a successful load, Reset and Close empty the search text, and the
\* pipeline run they cause is not run with a text typed before them: the
\* view handed to the table right after such a step is the whole dataset
\* in its original order.
C20_NoStaleQueryAfterLoad ==
    [][(SuccessfulLoad \/ resetAll \/ clearData) =>
           filteredData' = [i \in 1..Len(rawData') |-> i]]_vars

\* the records of the view, in its order
viewRecords == [k \in 1..Len(filteredData) |-> rawData[filteredData[k]]]

\* the selection is made of indices of rows of the view
SelectionInView == selectedRows \subseteq viewIndices

\* a step that recomputes the view, without a throw, empties the selection
SelectionEmptiedWithView ==
    (/\ \/ filteredData' # filteredData
        \/ rawData' # rawData
        \/ filters' # filters
        \/ sort' # sort
        \/ debouncedSearch' # debouncedSearch
     /\ ~crashed') => selectedRows' = {}

\* toggle-all selects every row of the view, or none when all are selected
ToggleAllSelectsAllOrNone ==
    toggleAllRows =>
        selectedRows' = IF selectedRows = viewIndices THEN {} ELSE viewIndices

\* the file that exportSelected downloads in this state holds the selected
\* rows of the view, in ascending order of their indices
ExportIsSelection ==
    exportSelected(selectedRows, viewRecords)
        = exportItems(rowsAt(viewRecords, sortedRows(selectedRows)))

\* C21: after any sequence of row toggles, toggle-all, search, filter and
\* sort edits, loads and Close, every selected index is an index of a row
\* of the view; the selection is emptied whenever the view is recomputed;
\* toggle-all selects every index of the view unless all are selected, and
\* then selects none; and exportSelected exports exactly the selected rows
\* of the view in ascending order of their indices.
C21_SelectionOfView ==
    [][/\ SelectionInView
       /\ SelectionEmptiedWithView
       /\ ToggleAllSelectsAllOrNone
       /\ ExportIsSelection]_vars

(***************************************************************************)
(* The claims about the exports, checked under Spec.                       *)
(***************************************************************************)
\* the selected rows of the view of the call, in the order of the view
SelectedOfCall == rowsAt(call.filteredData, sortedRows(call.selectedRows))

\* C18: an export followed by a load is a round trip: loading the text that
\* exportFiltered downloads yields the records of the view, and loading the
\* text that exportSelected downloads yields the selected rows of the view,
\* each deep-equal record by record and in the same order.
C18_ExportLoadRoundTrip ==
    /\ Returned("exportFiltered") =>
           loadJson(ret).ok /\ loadJson(ret).data = call.filteredData
    /\ (Returned("exportSelected") /\ call.selectedRows # {}) =>
           /\ ret # NoDownload
           /\ loadJson(ret).ok
           /\ loadJson(ret).data = SelectedOfCall

(***************************************************************************)
(* The claim about the comparator as an ordering, checked under Spec.      *)
(***************************************************************************)
\* the comparator's result on x and y under the sort of the call, with NaN
\* read as zero
SignOf(x, y) == AsSign(compare(x, y, call.sort))

\* compare(a, b) and compare(b, a) have opposite signs or are both zero
Antisymmetric == SignOf(call.b, call.a) = Negate(AsSign(ret))

\* a is not after b and b is not after c only if a is not after c
Transitive ==
    \A c \in ComparePool :
        (AsSign(ret) # "pos" /\ SignOf(call.b, c) # "pos") => SignOf(call.a, c) # "pos"

\* C22: for a fixed sort field and direction the comparator is a consistent
\* ordering of the values a dataset can hold (numbers, numeric strings,
\* other strings, missing values): compare(a, b) and compare(b, a) have
\* opposite signs or are both zero, and the relation is transitive, which
\* is what makes the sorted output independent of the pairs the host sort
\* compares.
C22_ComparatorConsistent == Returned("compare") => Antisymmetric /\ Transitive

====
